---- MODULE Spec2Model ----
(***************************************************************************)
(* Model of the payment gateway backend (src/server.js): the pricing       *)
(* singleton, the payments table, the startup initialization and the       *)
(* request handlers, split at their await points.                          *)
(*                                                                         *)
(* JavaScript values of a JSON body are tagged records: undefined, string  *)
(* (a sequence of one-character strings) and number (an exact rational     *)
(* n/d; IEEE-754 binary rounding is not modelled).                         *)
(***************************************************************************)
EXTENDS Integers, Sequences, FiniteSets, TLC

\* ------------------------------------------------------------------------
\* JavaScript values
\* ------------------------------------------------------------------------
Undefined == [t |-> "undefined"]
NaN == [t |-> "nan"]
Str(s) == [t |-> "string", s |-> s]
Num(n, d) == [t |-> "number", n |-> n, d |-> d]

IsStr(v) == v.t = "string"
IsNum(v) == v.t = "number"

\* !v is false exactly for the truthy values
Truthy(v) ==
  CASE v.t = "undefined" -> FALSE
    [] v.t = "nan" -> FALSE
    [] v.t = "string" -> Len(v.s) > 0
    [] v.t = "number" -> v.n # 0

Abs(x) == IF x < 0 THEN 0 - x ELSE x

RECURSIVE GCD(_, _)
GCD(a, b) == IF b = 0 THEN a ELSE GCD(b, a % b)

\* a rational in lowest terms with a positive denominator
Norm(n, d) ==
  LET g == GCD(Abs(n), Abs(d))
      s == IF d < 0 THEN 0 - 1 ELSE 1
  IN  Num((s * n) \div g, (s * d) \div g)

\* x < y, x <= y on numbers (any comparison with NaN is false)
NumLt(x, y) == IsNum(x) /\ IsNum(y) /\ x.n * y.d < y.n * x.d
NumLe(x, y) == IsNum(x) /\ IsNum(y) /\ x.n * y.d <= y.n * x.d
NumGt(x, y) == NumLt(y, x)
IsNaN(x) == ~IsNum(x)

Zero == Num(0, 1)
Hundred == Num(100, 1)

\* ------------------------------------------------------------------------
\* Characters
\* ------------------------------------------------------------------------
Digits == <<"0", "1", "2", "3", "4", "5", "6", "7", "8", "9">>
LowerLetters == <<"a", "b", "c", "d", "e", "f", "g", "h", "i", "j", "k", "l", "m",
                  "n", "o", "p", "q", "r", "s", "t", "u", "v", "w", "x", "y", "z">>
UpperLetters == <<"A", "B", "C", "D", "E", "F", "G", "H", "I", "J", "K", "L", "M",
                  "N", "O", "P", "Q", "R", "S", "T", "U", "V", "W", "X", "Y", "Z">>
Range(f) == {f[i] : i \in DOMAIN f}
DigitChar == Range(Digits)
LetterChar == Range(LowerLetters) \cup Range(UpperLetters)
WhiteSpace == {" ", "\t", "\n"}

DigitVal(c) == (CHOOSE i \in 1..10 : Digits[i] = c) - 1

ToLowerChar(c) ==
  IF c \in Range(UpperLetters)
  THEN LowerLetters[CHOOSE i \in 1..26 : UpperLetters[i] = c]
  ELSE c

\* String.prototype.toLowerCase
toLowerCase(s) == [i \in 1..Len(s) |-> ToLowerChar(s[i])]

\* String.prototype.trim
RECURSIVE TrimLeft(_)
TrimLeft(s) ==
  IF s # <<>> /\ Head(s) \in WhiteSpace THEN TrimLeft(Tail(s)) ELSE s

RECURSIVE TrimRight(_)
TrimRight(s) ==
  IF s # <<>> /\ s[Len(s)] \in WhiteSpace
  THEN TrimRight(SubSeq(s, 1, Len(s) - 1))
  ELSE s

trim(s) == TrimRight(TrimLeft(s))

\* ------------------------------------------------------------------------
\* sanitizeString and the format checks
\* ------------------------------------------------------------------------
\* the class [a-zA-Z0-9@._-] that sanitizeString keeps
KeptChar == LetterChar \cup DigitChar \cup {"@", ".", "_", "-"}

\* the string is trimmed, no character is removed
sanitizeString_TrimOnly(v) == IF ~IsStr(v) THEN <<>> ELSE trim(v.s)

sanitizeString(v) ==
  IF ~IsStr(v) THEN <<>>
  ELSE SelectSeq(trim(v.s), LAMBDA c : c \in KeptChar)

\* /^\d{10}$/
phoneRegex(s) == Len(s) = 10 /\ \A i \in 1..Len(s) : s[i] \in DigitChar

\* /^[a-zA-Z0-9._-]+@[a-zA-Z0-9.-]+\.[a-zA-Z]{2,}$/
emailRegex(s) ==
  \E a \in 1..Len(s), b \in 1..Len(s) :
    /\ 1 < a /\ a + 1 < b /\ b + 2 <= Len(s)
    /\ s[a] = "@" /\ s[b] = "."
    /\ \A i \in 1..(a - 1) : s[i] \in LetterChar \cup DigitChar \cup {".", "_", "-"}
    /\ \A i \in (a + 1)..(b - 1) : s[i] \in LetterChar \cup DigitChar \cup {".", "-"}
    /\ \A i \in (b + 1)..Len(s) : s[i] \in LetterChar

validStatuses == { <<"p", "e", "n", "d", "i", "n", "g">>,
                   <<"s", "u", "c", "c", "e", "s", "s">>,
                   <<"f", "a", "i", "l", "e", "d">> }

\* ------------------------------------------------------------------------
\* parseFloat, parseInt, toFixed
\* ------------------------------------------------------------------------
RECURSIVE DigitPrefix(_)
DigitPrefix(s) ==
  IF s # <<>> /\ Head(s) \in DigitChar
  THEN <<Head(s)>> \o DigitPrefix(Tail(s))
  ELSE <<>>

RECURSIVE DigitsValue(_)
DigitsValue(s) ==
  IF s = <<>> THEN 0
  ELSE 10 * DigitsValue(SubSeq(s, 1, Len(s) - 1)) + DigitVal(s[Len(s)])

RECURSIVE Pow10(_)
Pow10(k) == IF k = 0 THEN 1 ELSE 10 * Pow10(k - 1)

Drop(s, k) == SubSeq(s, k + 1, Len(s))

\* the longest prefix of the string that is a decimal literal
\* (sign, digits, optional fraction); exponents and Infinity are not modelled
ParseFloatStr(str) ==
  LET s0 == TrimLeft(str)
      neg == s0 # <<>> /\ Head(s0) = "-"
      s1 == IF s0 # <<>> /\ Head(s0) \in {"-", "+"} THEN Tail(s0) ELSE s0
      ip == DigitPrefix(s1)
      s2 == Drop(s1, Len(ip))
      fp == IF s2 # <<>> /\ Head(s2) = "." THEN DigitPrefix(Tail(s2)) ELSE <<>>
      mag == DigitsValue(ip \o fp)
  IN  IF ip = <<>> /\ fp = <<>> THEN NaN
      ELSE Norm(IF neg THEN 0 - mag ELSE mag, Pow10(Len(fp)))

parseFloat(v) ==
  CASE v.t = "string" -> ParseFloatStr(v.s)
    [] v.t = "number" -> v
    [] OTHER -> NaN

\* parseInt: the integer prefix of the string form, truncated toward zero
ParseIntStr(str) ==
  LET s0 == TrimLeft(str)
      neg == s0 # <<>> /\ Head(s0) = "-"
      s1 == IF s0 # <<>> /\ Head(s0) \in {"-", "+"} THEN Tail(s0) ELSE s0
      ip == DigitPrefix(s1)
  IN  IF ip = <<>> THEN NaN
      ELSE Num(IF neg THEN 0 - DigitsValue(ip) ELSE DigitsValue(ip), 1)

parseInt(v) ==
  CASE v.t = "string" -> ParseIntStr(v.s)
    [] v.t = "number" ->
         Num((IF v.n < 0 THEN 0 - 1 ELSE 1) * (Abs(v.n) \div v.d), 1)
    [] OTHER -> NaN

RECURSIVE NatToStr(_)
NatToStr(k) ==
  IF k < 10 THEN <<Digits[k + 1]>>
  ELSE NatToStr(k \div 10) \o <<Digits[(k % 10) + 1]>>

RECURSIVE PadLeft(_, _)
PadLeft(s, w) == IF Len(s) >= w THEN s ELSE PadLeft(<<"0">> \o s, w)

\* Number.prototype.toFixed(f): nearest multiple of 10^-f, the larger one on a
\* tie; a negative number keeps its sign even when it rounds to zero
toFixed(x, f) ==
  IF ~IsNum(x) THEN <<"N", "a", "N">>
  ELSE LET a == Abs(x.n)
           k == (2 * a * Pow10(f) + x.d) \div (2 * x.d)
           body == NatToStr(k \div Pow10(f)) \o <<".">>
                     \o PadLeft(NatToStr(k % Pow10(f)), f)
       IN  IF x.n < 0 THEN <<"-">> \o body ELSE body

\* basePrice * (1 - discountPercentage / 100)
DiscountedPrice(basePrice, discountPercentage) ==
  IF ~IsNum(basePrice) \/ ~IsNum(discountPercentage) THEN NaN
  ELSE Norm(basePrice.n * (100 * discountPercentage.d - discountPercentage.n),
            basePrice.d * discountPercentage.d * 100)

\* the discount is not applied
finalPrice_NoDiscount(basePrice, discountPercentage) == toFixed(basePrice, 2)

\* (basePrice * (1 - discountPercentage / 100)).toFixed(2)
finalPrice(basePrice, discountPercentage) ==
  toFixed(DiscountedPrice(basePrice, discountPercentage), 2)


\* SQLite TEXT affinity: a number bound to a TEXT column is stored as its
\* decimal text (an integer-valued REAL as "30.0")
RECURSIVE DecimalPlaces(_, _)
DecimalPlaces(x, k) ==
  IF k >= 4 \/ (x.n * Pow10(k)) % x.d = 0 THEN k ELSE DecimalPlaces(x, k + 1)

TextAffinity(v) ==
  IF IsNum(v)
  THEN (IF v.d = 1 THEN toFixed(v, 1) ELSE toFixed(v, DecimalPlaces(v, 0)))
  ELSE v.s

\* ------------------------------------------------------------------------
\* Bounds and input sets
\* ------------------------------------------------------------------------
\* server processes started against the same store
NumProcs == 2
\* requests in flight at the same time
NumSlots == 2
\* requests received by a server that has started
MaxRequests == 2
\* requests received in a behaviour that starts cold
MaxStartupRequests == 1
\* requests received in a behaviour that draws from every request body
MaxWideRequests == 1
\* largest value of Date.now()
MaxClock == 1
\* requests received in a behaviour of submissions and listings
MaxListRequests == 3

Procs == 1..NumProcs
Slots == 1..NumSlots

s_pending == <<"p", "e", "n", "d", "i", "n", "g">>
s_success == <<"s", "u", "c", "c", "e", "s", "s">>
s_Success == <<"S", "u", "c", "c", "e", "s", "s">>
s_failed == <<"f", "a", "i", "l", "e", "d">>
s_paid == <<"p", "a", "i", "d">>
s_captured == <<"c", "a", "p", "t", "u", "r", "e", "d">>
s_name == <<"A", "l">>
s_email == <<"a", "@", "b", ".", "c", "o">>
s_bademail == <<"a", "@", "b">>
s_phone10 == <<"1", "2", "3", "4", "5", "6", "7", "8", "9", "0">>
s_phone5 == <<"1", "2", "3", "4", "5">>
s_phone11 == <<"1", "2", "3", "4", "5", "6", "7", "8", "9", "0", "1">>
s_phoneDash == <<"1", "2", "3", "-", "4", "5", "6", "-", "7", "8", "9", "0">>
s_phoneSpace == <<"1", "2", "3", " ", "4", "5", "6", " ", "7", "8", "9", "0">>
s_pay1 == <<"p", "a", "y", "_", "1">>
s_pay1Query == <<"p", "a", "y", "_", "1", "?">>
s_order1 == <<"o", "r", "d", "e", "r", "_", "1">>
s_order2 == <<"o", "r", "d", "e", "r", "_", "2">>
s_2985 == <<"2", "9", ".", "8", "5">>
s_3000 == <<"3", "0", ".", "0", "0">>
s_19900 == <<"1", "9", "9", ".", "0", "0">>
s_0 == <<"0">>
s_abc == <<"a", "b", "c">>
s_INR == <<"I", "N", "R">>

\* the default pricing row of initializeDatabase
DefaultBasePrice == Num(199, 1)
DefaultDiscount == Num(85, 1)

\* POST /api/payment bodies
BasePayment ==
  [fullName |-> Str(s_name), phone |-> Str(s_phone10), email |-> Str(s_email),
   paymentId |-> Undefined, orderId |-> Str(s_order1), amount |-> Str(s_2985),
   status |-> Str(s_pending), date |-> Num(1000, 1)]

\* submissions that differ in their date
ListPaymentBodies == {[BasePayment EXCEPT !.date = d] : d \in {Num(1000, 1), Num(2000, 1)}}

PaymentAmounts == {Str(s_3000), Str(s_19900), Num(597, 20)}
PaymentStatuses == {Str(s_pending), Str(s_success), Str(s_Success)}
PaymentIds == {Undefined, Str(s_pay1)}
OrderIds == {Str(s_order1), Str(s_order2)}
Phones == {Str(s_phone5), Str(s_phone11), Str(s_phoneDash), Str(s_phoneSpace)}

\* bodies that pass the field checks, and one that does not
CorePaymentBodies ==
  {[BasePayment EXCEPT !.status = st, !.paymentId = pid] :
      st \in PaymentStatuses, pid \in PaymentIds}
  \cup {[BasePayment EXCEPT !.status = Str(s_success), !.paymentId = Str(s_pay1),
                            !.orderId = Str(s_order2)]}
  \cup {[BasePayment EXCEPT !.amount = a] : a \in {Str(s_3000), Str(s_19900)}}
  \cup {[BasePayment EXCEPT !.status = Str(s_paid)]}

PaymentBodies ==
  CorePaymentBodies
  \cup {[BasePayment EXCEPT !.amount = a] : a \in PaymentAmounts}
  \cup {[BasePayment EXCEPT !.amount = Str(s_3000), !.status = Str(s_success),
                            !.paymentId = Str(s_pay1)]}
  \cup {[BasePayment EXCEPT !.phone = ph] : ph \in Phones}
  \cup {[BasePayment EXCEPT !.status = Num(1, 1)]}
  \cup {[BasePayment EXCEPT !.status = Str(s_success), !.paymentId = Str(s_pay1Query)]}
  \cup {[BasePayment EXCEPT !.email = Str(s_bademail)],
        [BasePayment EXCEPT !.fullName = Undefined],
        [BasePayment EXCEPT !.amount = Str(s_abc)]}

\* POST /api/pricing bodies
CorePricingBodies ==
  {[basePrice |-> Num(199, 1), discountPercentage |-> d] :
      d \in {Num(0, 1), Str(s_0), Num(100, 1)}}

PricingBodies ==
  CorePricingBodies
  \cup {[basePrice |-> Num(199, 1), discountPercentage |-> Num(101, 1)]}
  \cup {[basePrice |-> b, discountPercentage |-> Num(100, 1)] :
      b \in {Num(0, 1), Str(s_abc)}}

\* one update that passes the checks, and those that do not
SeedPricingBodies ==
  {[basePrice |-> Num(199, 1), discountPercentage |-> d] : d \in {Num(100, 1), Num(101, 1)}}
  \cup {[basePrice |-> b, discountPercentage |-> Num(100, 1)] : b \in {Num(0, 1), Str(s_abc)}}

\* POST /api/razorpay/order bodies
CoreOrderBodies == {[amount |-> Num(2985, 1), currency |-> Str(s_INR)]}

OrderBodies ==
  CoreOrderBodies
  \cup {[amount |-> a, currency |-> Str(s_INR)] : a \in {Num(1, 2), Str(s_abc)}}
  \cup {[amount |-> Num(2985, 1), currency |-> Undefined]}

\* PATCH /api/payment/:id requests
CorePatchStatuses == {Str(s_Success), Str(s_failed), Str(s_paid)}

PatchStatuses == CorePatchStatuses \cup {Num(1, 1), Undefined}

\* what razorpay.payments.fetch can report: a failure, or a payment with its
\* order id and status
GatewayFailure == [t |-> "error"]
GatewayPayments ==
  {[t |-> "payment", order_id |-> o, status |-> st] :
      o \in OrderIds, st \in {Str(s_captured), Str(s_failed)}}


\* ------------------------------------------------------------------------
\* State
\* ------------------------------------------------------------------------
VARIABLES
  tables,      \* names of the tables that exist in the store
  pricing,     \* rows of the pricing table, in rowid order
  payments,    \* rows of the payments table, in rowid order
  now,         \* Date.now()
  initPc,      \* per process: where its initializeDatabase() run stands
  req,         \* per slot: the request in flight, between two awaits
  last,        \* the request that finished last, with its response
  budget,      \* requests that the behaviour still receives
  reconciled,  \* ids of the payments rows inserted after a gateway lookup that
               \* reported a captured payment with the request's order id
  launchCtx    \* per process: what the other processes' initializeDatabase()
               \* runs were doing when it was launched

vars == <<tables, pricing, payments, now, initPc, req, last, budget, reconciled, launchCtx>>

Idle == [kind |-> "idle"]
NoRequest == [kind |-> "none"]
NoResponse == [code |-> 0, message |-> "(no response)"]

\* a process accepts requests from app.listen on, until it exits
Listening(p) == initPc[p] \notin {"off", "exited"}

Init ==
  /\ tables = {}
  /\ pricing = <<>>
  /\ payments = <<>>
  /\ now = 0
  /\ initPc = [p \in Procs |-> "off"]
  /\ req = [s \in Slots |-> Idle]
  /\ last = NoRequest
  /\ budget = MaxStartupRequests
  /\ reconciled = {}
  /\ launchCtx = [p \in Procs |-> "off"]

\* the state after one process has started against an empty store
InitServing ==
  /\ tables = {"payments", "pricing"}
  /\ pricing = <<[id |-> 1, basePrice |-> DefaultBasePrice,
                  discountPercentage |-> DefaultDiscount, lastUpdated |-> 0]>>
  /\ payments = <<>>
  /\ now = 0
  /\ initPc = [p \in Procs |-> IF p = 1 THEN "ready" ELSE "off"]
  /\ req = [s \in Slots |-> Idle]
  /\ last = NoRequest
  /\ budget = MaxRequests
  /\ reconciled = {}
  /\ launchCtx = [p \in Procs |-> "off"]

\* the same, for a behaviour of submissions and listings
InitList ==
  /\ tables = {"payments", "pricing"}
  /\ pricing = <<[id |-> 1, basePrice |-> DefaultBasePrice,
                  discountPercentage |-> DefaultDiscount, lastUpdated |-> 0]>>
  /\ payments = <<>>
  /\ now = 0
  /\ initPc = [p \in Procs |-> IF p = 1 THEN "ready" ELSE "off"]
  /\ req = [s \in Slots |-> Idle]
  /\ last = NoRequest
  /\ budget = MaxListRequests
  /\ reconciled = {}
  /\ launchCtx = [p \in Procs |-> "off"]

\* the same, for a behaviour that draws from every request body
InitWide ==
  /\ tables = {"payments", "pricing"}
  /\ pricing = <<[id |-> 1, basePrice |-> DefaultBasePrice,
                  discountPercentage |-> DefaultDiscount, lastUpdated |-> 0]>>
  /\ payments = <<>>
  /\ now = 0
  /\ initPc = [p \in Procs |-> IF p = 1 THEN "ready" ELSE "off"]
  /\ req = [s \in Slots |-> Idle]
  /\ last = NoRequest
  /\ budget = MaxWideRequests
  /\ reconciled = {}
  /\ launchCtx = [p \in Procs |-> "off"]

\* Date.now() does not go backwards
Clock(t) == t \in {now, now + 1} /\ t <= MaxClock

\* ------------------------------------------------------------------------
\* Startup: node runs the module top to bottom; initializeDatabase() is
\* called without await, so app.listen follows in the same turn
\* ------------------------------------------------------------------------
Running(p) == initPc[p] \in {"createPayments", "createPricing", "count", "insert"}

\* processes are interchangeable: they are numbered in the order of launch
Launch(p) ==
  /\ initPc[p] = "off"
  /\ \A q \in Procs : q < p => initPc[q] # "off"
  /\ initPc' = [initPc EXCEPT ![p] = "createPayments"]
  /\ launchCtx' = [launchCtx EXCEPT ![p] =
                     IF \E q \in Procs : Running(q) THEN "overlapping"
                     ELSE IF \E q \in Procs : initPc[q] = "ready" THEN "after a run"
                     ELSE "first"]
  /\ UNCHANGED <<tables, pricing, payments, now, req, last, budget, reconciled>>

\* catch (err) { process.exit(1) }: the process and its requests are gone
InitFail(p) ==
  /\ initPc' = [initPc EXCEPT ![p] = "exited"]
  /\ req' = [s \in Slots |-> IF req[s].kind # "idle" /\ req[s].proc = p
                             THEN Idle ELSE req[s]]
  /\ UNCHANGED <<tables, pricing, payments, now, last, budget, reconciled, launchCtx>>

CreateTable(p, here, name, next) ==
  /\ initPc[p] = here
  /\ \/ /\ tables' = tables \cup {name}
        /\ initPc' = [initPc EXCEPT ![p] = next]
        /\ UNCHANGED <<pricing, payments, now, req, last, budget, reconciled, launchCtx>>
     \/ InitFail(p) /\ UNCHANGED tables

InitCreatePayments(p) == CreateTable(p, "createPayments", "payments", "createPricing")

InitCreatePricing(p) == CreateTable(p, "createPricing", "pricing", "count")

\* the default row is inserted when the table holds at most one row
SeedNeeded_AtMostOne(count) == count <= 1

\* SELECT COUNT(*) as count FROM pricing, then the test count === 0
SeedNeeded(count) == count = 0

InitCount(p) ==
  /\ initPc[p] = "count"
  /\ \/ /\ "pricing" \in tables
        /\ initPc' = [initPc EXCEPT ![p] =
                        IF SeedNeeded(Len(pricing)) THEN "insert" ELSE "ready"]
        /\ UNCHANGED <<tables, pricing, payments, now, req, last, budget, reconciled, launchCtx>>
     \/ InitFail(p) /\ UNCHANGED tables

InitInsert(p) ==
  /\ initPc[p] = "insert"
  /\ \/ /\ "pricing" \in tables
        /\ \E t \in 0..MaxClock :
             /\ Clock(t)
             /\ now' = t
             /\ pricing' = Append(pricing,
                  [id |-> Len(pricing) + 1, basePrice |-> DefaultBasePrice,
                   discountPercentage |-> DefaultDiscount, lastUpdated |-> t])
        /\ initPc' = [initPc EXCEPT ![p] = "ready"]
        /\ UNCHANGED <<tables, payments, req, last, budget, reconciled, launchCtx>>
     \/ InitFail(p) /\ UNCHANGED <<tables, pricing, now>>

\* ------------------------------------------------------------------------
\* Requests
\* ------------------------------------------------------------------------
Resp(code, message) == [code |-> code, message |-> message]

\* a handler is entered: it runs up to its first await or to its response
Receive(s, p) ==
  /\ req[s] = Idle
  /\ \A s2 \in Slots : s2 < s => req[s2] # Idle
  /\ Listening(p)
  /\ budget > 0
  /\ budget' = budget - 1

NewRequest(kind, p, body) ==
  [kind |-> kind, proc |-> p, body |-> body, pc |-> "start", log |-> <<>>,
   unready |-> FALSE, ts |-> 0, basePriceNum |-> NaN, discountPercentageNum |-> NaN,
   basePrice |-> NaN, discountPercentage |-> NaN, verified |-> FALSE]

\* the response is sent and the slot is free again
Finished(r, resp) ==
  [kind |-> r.kind, proc |-> r.proc, body |-> r.body, log |-> r.log,
   unready |-> r.unready, basePrice |-> r.basePrice,
   discountPercentage |-> r.discountPercentage, resp |-> resp]

\* the request r makes a call to the store or to the gateway
Called(r, what) ==
  [r EXCEPT !.log = Append(@, what),
            !.unready = @ \/ (what[1] = "store" /\ initPc[r.proc] # "ready")]

Respond(s, r, resp) ==
  /\ last' = Finished(r, resp)
  /\ req' = [req EXCEPT ![s] = Idle]

Await(s, r, pc) ==
  /\ req' = [req EXCEPT ![s] = [r EXCEPT !.pc = pc]]
  /\ UNCHANGED last

\* a rejected promise of an async handler: Express 5 passes it to the error
\* middleware (500), Express 4 leaves the request without a response
Thrown(s, r) ==
  \E resp \in {Resp(500, "Internal server error."), NoResponse} :
     Respond(s, r, resp)


\* ---- GET /api/pricing ---------------------------------------------------
GetPricing_Start(s, p) ==
  /\ Receive(s, p)
  /\ req' = [req EXCEPT ![s] = [NewRequest("getPricing", p, Undefined) EXCEPT !.pc = "select"]]
  /\ UNCHANGED <<tables, pricing, payments, now, initPc, last, reconciled, launchCtx>>

PricingData(basePrice, discountPercentage) ==
  [basePrice |-> toFixed(parseFloat(basePrice), 2),
   discountPercentage |-> toFixed(parseFloat(discountPercentage), 1),
   finalPrice |-> finalPrice(basePrice, discountPercentage)]

GetPricing_Select(s) ==
  /\ req[s].kind = "getPricing" /\ req[s].pc = "select"
  /\ LET r == Called(req[s], <<"store", "select pricing">>) IN
       \/ /\ "pricing" \in tables
          /\ IF Len(pricing) = 0
             THEN Respond(s, r, Resp(404, "No pricing data found."))
             ELSE Respond(s, r, [code |-> 200, message |-> "",
                    data |-> PricingData(pricing[1].basePrice,
                                         pricing[1].discountPercentage)])
       \/ Respond(s, r, Resp(500, "Failed to fetch pricing."))
  /\ UNCHANGED <<tables, pricing, payments, now, initPc, budget, reconciled, launchCtx>>

\* ---- POST /api/pricing --------------------------------------------------
\* the checks of lines 113-126: the 400 message, or "ok"
PricingCheck(body) ==
  LET basePriceNum == parseFloat(body.basePrice)
      discountPercentageNum == parseFloat(body.discountPercentage)
  IN  IF ~Truthy(body.basePrice) \/ ~Truthy(body.discountPercentage)
      THEN "basePrice and discountPercentage are required."
      ELSE IF IsNaN(basePriceNum) \/ NumLe(basePriceNum, Zero)
      THEN "basePrice must be a positive number."
      ELSE IF IsNaN(discountPercentageNum) \/ NumLt(discountPercentageNum, Zero)
                \/ NumGt(discountPercentageNum, Hundred)
      THEN "discountPercentage must be between 0 and 100."
      ELSE "ok"

PostPricing_Start(s, p, body) ==
  /\ Receive(s, p)
  /\ LET r == NewRequest("updatePricing", p, body) IN
       IF PricingCheck(body) # "ok"
       THEN Respond(s, r, Resp(400, PricingCheck(body))) /\ UNCHANGED now
       ELSE \E t \in 0..MaxClock :
              /\ Clock(t)
              /\ now' = t
              /\ Await(s, [r EXCEPT !.basePriceNum = parseFloat(body.basePrice),
                                    !.discountPercentageNum = parseFloat(body.discountPercentage),
                                    !.ts = t], "update")
  /\ UNCHANGED <<tables, pricing, payments, initPc, reconciled, launchCtx>>

\* the row is inserted when no row has id 1
UpdatePricingRow_Upsert(rows, basePrice, discountPercentage, ts) ==
  IF \A i \in 1..Len(rows) : rows[i].id # 1
  THEN Append(rows, [id |-> 1, basePrice |-> basePrice,
                     discountPercentage |-> discountPercentage, lastUpdated |-> ts])
  ELSE [i \in 1..Len(rows) |->
          IF rows[i].id = 1
          THEN [rows[i] EXCEPT !.basePrice = basePrice,
                               !.discountPercentage = discountPercentage,
                               !.lastUpdated = ts]
          ELSE rows[i]]

\* UPDATE pricing SET ... WHERE id = 1
UpdatePricingRow(rows, basePrice, discountPercentage, ts) ==
  [i \in 1..Len(rows) |->
     IF rows[i].id = 1
     THEN [rows[i] EXCEPT !.basePrice = basePrice,
                          !.discountPercentage = discountPercentage,
                          !.lastUpdated = ts]
     ELSE rows[i]]

\* the update also rewrites the snapshot of the stored records
PostPricing_Update_Resnapshot(s) ==
  /\ req[s].kind = "updatePricing" /\ req[s].pc = "update"
  /\ LET r == Called(req[s], <<"store", "update pricing">>) IN
       \/ /\ "pricing" \in tables
          /\ pricing' = UpdatePricingRow(pricing, r.basePriceNum,
                                         r.discountPercentageNum, r.ts)
          /\ payments' = [i \in 1..Len(payments) |->
                            [payments[i] EXCEPT !.basePrice = r.basePriceNum,
                                                !.discountPercentage = r.discountPercentageNum]]
          /\ IF \A i \in 1..Len(pricing) : pricing[i].id # 1
             THEN Respond(s, r, Resp(404, "No pricing record found to update."))
             ELSE Respond(s, r, [code |-> 200, message |-> "Pricing updated successfully.",
                    data |-> PricingData(r.basePriceNum, r.discountPercentageNum)])
       \/ /\ Respond(s, r, Resp(500, "Failed to update pricing."))
          /\ UNCHANGED <<pricing, payments>>
  /\ UNCHANGED <<tables, now, initPc, budget, reconciled, launchCtx>>

PostPricing_Update(s) ==
  /\ req[s].kind = "updatePricing" /\ req[s].pc = "update"
  /\ LET r == Called(req[s], <<"store", "update pricing">>) IN
       \/ /\ "pricing" \in tables
          /\ pricing' = UpdatePricingRow(pricing, r.basePriceNum,
                                         r.discountPercentageNum, r.ts)
          /\ IF \A i \in 1..Len(pricing) : pricing[i].id # 1
             THEN Respond(s, r, Resp(404, "No pricing record found to update."))
             ELSE Respond(s, r, [code |-> 200, message |-> "Pricing updated successfully.",
                    data |-> PricingData(r.basePriceNum, r.discountPercentageNum)])
       \/ /\ Respond(s, r, Resp(500, "Failed to update pricing."))
          /\ UNCHANGED pricing
  /\ UNCHANGED <<tables, payments, now, initPc, budget, reconciled, launchCtx>>

\* ---- POST /api/razorpay/order -------------------------------------------
OrderCheck(body) ==
  LET amountNum == parseInt(body.amount) IN
    IF ~Truthy(body.amount) \/ ~Truthy(body.currency)
    THEN "Amount and currency are required."
    ELSE IF IsNaN(amountNum) \/ NumLe(amountNum, Zero)
    THEN "Amount must be a positive integer."
    ELSE "ok"

PostOrder_Start(s, p, body) ==
  /\ Receive(s, p)
  /\ LET r == NewRequest("createOrder", p, body) IN
       IF OrderCheck(body) # "ok"
       THEN Respond(s, r, Resp(400, OrderCheck(body)))
       ELSE Await(s, r, "create")
  /\ UNCHANGED <<tables, pricing, payments, now, initPc, reconciled, launchCtx>>

PostOrder_Create(s) ==
  /\ req[s].kind = "createOrder" /\ req[s].pc = "create"
  /\ LET r == Called(req[s], <<"gateway", "orders.create">>) IN
       \/ \E o \in OrderIds :
            Respond(s, r, [code |-> 200, message |-> "", orderId |-> o])
       \/ Respond(s, r, Resp(500, "Failed to create order."))
  /\ UNCHANGED <<tables, pricing, payments, now, initPc, budget, reconciled, launchCtx>>


\* ---- POST /api/payment --------------------------------------------------
\* validStatuses.includes(status.toLowerCase())
StatusValid(status) == toLowerCase(status.s) \in validStatuses

\* the checks of lines 185-213 without the email format check
PaymentCheck_NoEmail(body) ==
  IF \E f \in {"fullName", "phone", "email", "amount", "status", "date", "orderId"} :
        ~Truthy(body[f])
  THEN "Missing required fields."
  ELSE IF ~phoneRegex(sanitizeString(body.phone))
  THEN "Phone number must be 10 digits."
  ELSE IF ~IsStr(body.status)
  THEN "throw"
  ELSE IF ~toLowerCase(body.status.s) \in validStatuses
  THEN "Invalid status. Must be pending, success, or failed."
  ELSE "ok"

\* the checks of lines 185-213: the 400 message, "throw" where
\* status.toLowerCase is not a function, or "ok"
PaymentCheck(body) ==
  IF \E f \in {"fullName", "phone", "email", "amount", "status", "date", "orderId"} :
        ~Truthy(body[f])
  THEN "Missing required fields."
  ELSE IF ~phoneRegex(sanitizeString(body.phone))
  THEN "Phone number must be 10 digits."
  ELSE IF ~emailRegex(sanitizeString(body.email))
  THEN "Invalid email format."
  ELSE IF ~IsStr(body.status)
  THEN "throw"
  ELSE IF ~StatusValid(body.status)
  THEN "Invalid status. Must be pending, success, or failed."
  ELSE "ok"

PostPayment_Start(s, p, body) ==
  /\ Receive(s, p)
  /\ LET r == NewRequest("submitPayment", p, body) IN
       CASE PaymentCheck(body) = "ok" -> Await(s, r, "selectPricing")
         [] PaymentCheck(body) = "throw" -> Thrown(s, r)
         [] OTHER -> Respond(s, r, Resp(400, PaymentCheck(body)))
  /\ UNCHANGED <<tables, pricing, payments, now, initPc, reconciled, launchCtx>>

\* only an amount below the price is refused
AmountMismatch_Below(amount, expectedFinalPrice) ==
  NumLt(parseFloat(amount), parseFloat(Str(expectedFinalPrice)))

\* parseFloat(amount).toFixed(2) !== expectedFinalPrice
AmountMismatch(amount, expectedFinalPrice) ==
  toFixed(parseFloat(amount), 2) # expectedFinalPrice

\* paymentId && status.toLowerCase() === 'success'
NeedsVerification(body) ==
  Truthy(body.paymentId) /\ toLowerCase(body.status.s) = s_success

PostPayment_SelectPricing(s) ==
  /\ req[s].kind = "submitPayment" /\ req[s].pc = "selectPricing"
  /\ LET r == Called(req[s], <<"store", "select pricing">>) IN
       \/ /\ "pricing" \in tables
          /\ IF Len(pricing) = 0
             THEN Respond(s, r, Resp(400, "No pricing data available."))
             ELSE LET basePrice == pricing[1].basePrice
                      discountPercentage == pricing[1].discountPercentage
                      expectedFinalPrice == finalPrice(basePrice, discountPercentage)
                      r2 == [r EXCEPT !.basePrice = basePrice,
                                      !.discountPercentage = discountPercentage]
                  IN  IF AmountMismatch(r.body.amount, expectedFinalPrice)
                      THEN Respond(s, r2, [code |-> 400, message |-> "Invalid amount.",
                                           expected |-> expectedFinalPrice,
                                           received |-> r.body.amount])
                      ELSE IF NeedsVerification(r.body)
                      THEN Await(s, r2, "fetch")
                      ELSE Await(s, r2, "insert")
       \/ Respond(s, r, Resp(500, "Failed to save payment."))
  /\ UNCHANGED <<tables, pricing, payments, now, initPc, budget, reconciled, launchCtx>>

\* the order id of the gateway's record is not compared
PaymentRejected_StatusOnly(payment, orderId) == payment.status # Str(s_captured)

\* payment.order_id !== orderId || payment.status !== 'captured'
PaymentRejected(payment, orderId) ==
  payment.order_id # orderId \/ payment.status # Str(s_captured)

PostPayment_Fetch(s) ==
  /\ req[s].kind = "submitPayment" /\ req[s].pc = "fetch"
  /\ LET r == Called(req[s], <<"gateway", "payments.fetch", req[s].body.paymentId>>) IN
       \E payment \in GatewayPayments \cup {GatewayFailure} :
          LET r2 == [r EXCEPT !.log = Append(@, <<"gateway answer", payment>>)] IN
            IF payment = GatewayFailure
            THEN Respond(s, r2, Resp(400, "Payment verification failed."))
            ELSE IF PaymentRejected(payment, r.body.orderId)
            THEN Respond(s, r2, Resp(400, "Invalid payment or order ID."))
            ELSE Await(s, [r2 EXCEPT !.verified = (payment.order_id = r.body.orderId
                                                    /\ payment.status = Str(s_captured))],
                       "insert")
  /\ UNCHANGED <<tables, pricing, payments, now, initPc, budget, reconciled, launchCtx>>

\* the row takes the pricing values of the moment of the insert
PaymentRow_CurrentPricing(id, r) ==
  [id |-> id,
   fullName |-> sanitizeString(r.body.fullName),
   phone |-> sanitizeString(r.body.phone),
   email |-> sanitizeString(r.body.email),
   paymentId |-> IF Truthy(r.body.paymentId) THEN sanitizeString(r.body.paymentId) ELSE <<>>,
   orderId |-> sanitizeString(r.body.orderId),
   amount |-> TextAffinity(r.body.amount),
   basePrice |-> pricing[1].basePrice,
   discountPercentage |-> pricing[1].discountPercentage,
   status |-> r.body.status.s,
   date |-> r.body.date]

\* the row that the INSERT of lines 250-253 writes
PaymentRow(id, r) ==
  [id |-> id,
   fullName |-> sanitizeString(r.body.fullName),
   phone |-> sanitizeString(r.body.phone),
   email |-> sanitizeString(r.body.email),
   paymentId |-> IF Truthy(r.body.paymentId) THEN sanitizeString(r.body.paymentId) ELSE <<>>,
   orderId |-> sanitizeString(r.body.orderId),
   amount |-> TextAffinity(r.body.amount),
   basePrice |-> r.basePrice,
   discountPercentage |-> r.discountPercentage,
   status |-> r.body.status.s,
   date |-> r.body.date]

PostPayment_Insert(s) ==
  /\ req[s].kind = "submitPayment" /\ req[s].pc = "insert"
  /\ LET r == Called(req[s], <<"store", "insert payment">>) IN
       \/ /\ "payments" \in tables
          /\ payments' = Append(payments, PaymentRow(Len(payments) + 1, r))
          /\ reconciled' = IF r.verified THEN reconciled \cup {Len(payments) + 1}
                           ELSE reconciled
          /\ Respond(s, r, Resp(200, "Payment saved."))
       \/ /\ Respond(s, r, Resp(500, "Failed to save payment."))
          /\ UNCHANGED <<payments, reconciled>>
  /\ UNCHANGED <<tables, pricing, now, initPc, budget, launchCtx>>

\* ---- PATCH /api/payment/:id ---------------------------------------------
MaxPatchId == 2

StatusCheck(body) ==
  IF ~Truthy(body.status) THEN "Status is required."
  ELSE IF ~IsStr(body.status) THEN "throw"
  ELSE IF ~StatusValid(body.status)
  THEN "Invalid status. Must be pending, success, or failed."
  ELSE "ok"

PatchPayment_Start(s, p, id, body) ==
  /\ Receive(s, p)
  /\ LET r == NewRequest("updateStatus", p, [id |-> id, status |-> body.status]) IN
       CASE StatusCheck(body) = "ok" -> Await(s, r, "update")
         [] StatusCheck(body) = "throw" -> Thrown(s, r)
         [] OTHER -> Respond(s, r, Resp(400, StatusCheck(body)))
  /\ UNCHANGED <<tables, pricing, payments, now, initPc, reconciled, launchCtx>>

\* the statement has no WHERE clause
UpdateStatusRow_EveryRow(rows, id, status) ==
  [i \in 1..Len(rows) |-> [rows[i] EXCEPT !.status = status]]

\* UPDATE payments SET status = ? WHERE id = ?
UpdateStatusRow(rows, id, status) ==
  [i \in 1..Len(rows) |->
     IF rows[i].id = id THEN [rows[i] EXCEPT !.status = status] ELSE rows[i]]

PatchPayment_Update(s) ==
  /\ req[s].kind = "updateStatus" /\ req[s].pc = "update"
  /\ LET r == Called(req[s], <<"store", "update payment">>) IN
       \/ /\ "payments" \in tables
          /\ payments' = UpdateStatusRow(payments, r.body.id, toLowerCase(r.body.status.s))
          /\ IF \A i \in 1..Len(payments) : payments[i].id # r.body.id
             THEN Respond(s, r, Resp(404, "Payment record not found."))
             ELSE Respond(s, r, Resp(200, "Payment status updated."))
       \/ /\ Respond(s, r, Resp(500, "Failed to update payment status."))
          /\ UNCHANGED payments
  /\ UNCHANGED <<tables, pricing, now, initPc, budget, reconciled, launchCtx>>

\* ---- GET /api/payments --------------------------------------------------
GetPayments_Start(s, p) ==
  /\ Receive(s, p)
  /\ req' = [req EXCEPT ![s] = [NewRequest("listPayments", p, Undefined) EXCEPT !.pc = "select"]]
  /\ UNCHANGED <<tables, pricing, payments, now, initPc, last, reconciled, launchCtx>>

\* rows of equal date come out latest first
OrderedByDateDesc_TiesReversed(rows) ==
  LET RECURSIVE Sorted(_)
      Sorted(n) ==
        IF n = 0 THEN <<>>
        ELSE LET rest == Sorted(n - 1)
                 k == Cardinality({i \in 1..Len(rest) : NumGt(rest[i].date, rows[n].date)})
             IN  SubSeq(rest, 1, k) \o <<rows[n]>> \o SubSeq(rest, k + 1, Len(rest))
  IN  Sorted(Len(rows))

\* SELECT * FROM payments ORDER BY date DESC: the table is scanned in rowid
\* order and sorted on date alone; the sorter of the store keeps the scan
\* order among rows of equal date
OrderedByDateDesc(rows) ==
  LET RECURSIVE Sorted(_)
      Sorted(n) ==
        IF n = 0 THEN <<>>
        ELSE LET rest == Sorted(n - 1)
                 k == Cardinality({i \in 1..Len(rest) : NumLe(rows[n].date, rest[i].date)})
             IN  SubSeq(rest, 1, k) \o <<rows[n]>> \o SubSeq(rest, k + 1, Len(rest))
  IN  Sorted(Len(rows))

GetPayments_Select(s) ==
  /\ req[s].kind = "listPayments" /\ req[s].pc = "select"
  /\ LET r == Called(req[s], <<"store", "select payments">>) IN
       \/ /\ "payments" \in tables
          /\ Respond(s, r, [code |-> 200, message |-> "", data |-> OrderedByDateDesc(payments)])
       \/ Respond(s, r, Resp(500, "Failed to fetch payments."))
  /\ UNCHANGED <<tables, pricing, payments, now, initPc, budget, reconciled, launchCtx>>

\* ------------------------------------------------------------------------
\* Specification
\* ------------------------------------------------------------------------
Startup ==
  \/ \E p \in Procs : Launch(p)
  \/ \E p \in Procs : InitCreatePayments(p)
  \/ \E p \in Procs : InitCreatePricing(p)
  \/ \E p \in Procs : InitCount(p)
  \/ \E p \in Procs : InitInsert(p)

Serving(paymentBodies, pricingBodies, orderBodies, patchStatuses) ==
  \/ \E s \in Slots, p \in Procs : GetPricing_Start(s, p)
  \/ \E s \in Slots : GetPricing_Select(s)
  \/ \E s \in Slots, p \in Procs, body \in pricingBodies : PostPricing_Start(s, p, body)
  \/ \E s \in Slots : PostPricing_Update(s)
  \/ \E s \in Slots, p \in Procs, body \in orderBodies : PostOrder_Start(s, p, body)
  \/ \E s \in Slots : PostOrder_Create(s)
  \/ \E s \in Slots, p \in Procs, body \in paymentBodies : PostPayment_Start(s, p, body)
  \/ \E s \in Slots : PostPayment_SelectPricing(s)
  \/ \E s \in Slots : PostPayment_Fetch(s)
  \/ \E s \in Slots : PostPayment_Insert(s)
  \/ \E s \in Slots, p \in Procs, id \in 1..MaxPatchId, st \in patchStatuses :
       PatchPayment_Start(s, p, id, [status |-> st])
  \/ \E s \in Slots : PatchPayment_Update(s)
  \/ \E s \in Slots, p \in Procs : GetPayments_Start(s, p)
  \/ \E s \in Slots : GetPayments_Select(s)

NextCore == Serving(CorePaymentBodies, CorePricingBodies, CoreOrderBodies, CorePatchStatuses)

NextWide == Serving(PaymentBodies, PricingBodies, OrderBodies, PatchStatuses)

\* a cold start: processes are launched and serve while they initialize
Next == Startup \/ NextWide

Spec == Init /\ [][Next]_vars

\* a server that has started
SpecServing == InitServing /\ [][NextCore]_vars

\* a server that has started, every request body
SpecWide == InitWide /\ [][NextWide]_vars

\* a cold start where the only requests are those of the pricing endpoints
NextPricing ==
  \/ \E p \in Procs : Launch(p)
  \/ \E p \in Procs : InitCreatePayments(p)
  \/ \E p \in Procs : InitCreatePricing(p)
  \/ \E p \in Procs : InitCount(p)
  \/ \E p \in Procs : InitInsert(p)
  \/ \E s \in Slots, p \in Procs : GetPricing_Start(s, p)
  \/ \E s \in Slots : GetPricing_Select(s)
  \/ \E s \in Slots, p \in Procs, body \in PricingBodies : PostPricing_Start(s, p, body)
  \/ \E s \in Slots : PostPricing_Update(s)

SpecPricing == Init /\ [][NextPricing]_vars

\* a cold start where the only requests are pricing updates
NextSeed ==
  \/ \E p \in Procs : Launch(p)
  \/ \E p \in Procs : InitCreatePayments(p)
  \/ \E p \in Procs : InitCreatePricing(p)
  \/ \E p \in Procs : InitCount(p)
  \/ \E p \in Procs : InitInsert(p)
  \/ \E s \in Slots, p \in Procs, body \in SeedPricingBodies : PostPricing_Start(s, p, body)
  \/ \E s \in Slots : PostPricing_Update(s)

SpecSeed == Init /\ [][NextSeed]_vars

\* a server that has started; submissions without a paymentId, and listings
NextList ==
  \/ \E s \in Slots, p \in Procs, body \in ListPaymentBodies : PostPayment_Start(s, p, body)
  \/ \E s \in Slots : PostPayment_SelectPricing(s)
  \/ \E s \in Slots : PostPayment_Insert(s)
  \/ \E s \in Slots, p \in Procs : GetPayments_Start(s, p)
  \/ \E s \in Slots : GetPayments_Select(s)

SpecList == InitList /\ [][NextList]_vars


\* ------------------------------------------------------------------------
\* Properties
\* ------------------------------------------------------------------------
SelectPricingCall == <<"store", "select pricing">>
InsertPaymentCall == <<"store", "insert payment">>

Calls(log) == {log[i] : i \in DOMAIN log}
GatewayAnswers(log) == {c[2] : c \in {x \in Calls(log) : x[1] = "gateway answer"}}

\* the finished request is a submission that read a pricing row
ReadPricing == last.kind = "submitPayment" /\ IsNum(last.basePrice)

\* the 2-decimal form of the request's amount against that of the row it read
AmountDiffers ==
  toFixed(parseFloat(last.body.amount), 2)
    # toFixed(DiscountedPrice(last.basePrice, last.discountPercentage), 2)

\* C1: a submission that passed the field checks and whose amount, formatted
\* to 2 decimals, is not the final price of the pricing row it read ends with
\* a 400 that names the expected and the received value, after the pricing
\* read as its only call: no gateway call and no write.
C1_AmountMismatchRejected ==
  (ReadPricing /\ AmountDiffers) =>
     /\ last.resp.code = 400
     /\ last.resp.message = "Invalid amount."
     /\ last.resp.expected = toFixed(DiscountedPrice(last.basePrice, last.discountPercentage), 2)
     /\ last.resp.received = last.body.amount
     /\ last.log = <<SelectPricingCall>>

C1_Witness ==
  /\ ReadPricing /\ AmountDiffers
  /\ last.body.amount = Str(s_3000)
  /\ last.resp.code = 400
  /\ last.resp.expected = s_2985

\* the finished request is a submission that passed steps 1-5 with a
\* paymentId and a status that is 'success' in any letter case
ClaimsSuccess ==
  /\ ReadPricing /\ ~AmountDiffers
  /\ Truthy(last.body.paymentId)
  /\ toLowerCase(last.body.status.s) = s_success

BadAnswer(a) ==
  \/ a = GatewayFailure
  \/ a.order_id # last.body.orderId
  \/ a.status # Str(s_captured)

\* C2: such a submission looks the payment up at the gateway, and when the
\* lookup fails, reports another order id or a status other than captured,
\* it ends with a 400 and inserts nothing.
C2_VerificationFailureRejected ==
  ClaimsSuccess =>
     /\ GatewayAnswers(last.log) # {}
     /\ \A a \in GatewayAnswers(last.log) :
          BadAnswer(a) => /\ last.resp.code = 400
                          /\ InsertPaymentCall \notin Calls(last.log)

C2_Witness ==
  /\ ClaimsSuccess
  /\ \E a \in GatewayAnswers(last.log) :
       a # GatewayFailure /\ a.order_id # last.body.orderId /\ a.status = Str(s_captured)
  /\ last.resp.code = 400

\* C3: every stored record whose status is 'success' in any
\* letter case was cross-checked against the gateway: the gateway reported a
\* captured payment with the record's order id before the record held it.
C3_EverySuccessReconciled ==
  \A i \in DOMAIN payments :
     toLowerCase(payments[i].status) = s_success => payments[i].id \in reconciled

\* C4: an update with basePrice > 0 and discountPercentage in [0,100], the
\* boundaries included, succeeds, and the price read back is the 2-decimal
\* discounted price of the row.
C4_ValidPricingAccepted ==
  /\ (/\ last.kind = "updatePricing"
      /\ NumGt(parseFloat(last.body.basePrice), Zero)
      /\ NumLe(Zero, parseFloat(last.body.discountPercentage))
      /\ NumLe(parseFloat(last.body.discountPercentage), Hundred)
      /\ last.resp.code \notin {404, 500})
       => /\ last.resp.code = 200
          /\ last.resp.data.finalPrice =
               toFixed(DiscountedPrice(parseFloat(last.body.basePrice),
                                       parseFloat(last.body.discountPercentage)), 2)
  /\ (last.kind = "getPricing" /\ last.resp.code = 200)
       => last.resp.data.finalPrice =
            toFixed(DiscountedPrice(pricing[1].basePrice, pricing[1].discountPercentage), 2)

\* C5: when no two initialization runs overlap, the pricing table holds one
\* row once a run has completed, and a run that is launched after a completed
\* one neither inserts a pricing row nor changes one.
C5_SeedingIdempotent ==
  /\ []((/\ \A p \in Procs : launchCtx[p] # "overlapping"
         /\ \E p \in Procs : initPc[p] = "ready")
          => Len(pricing) = 1)
  /\ [][\A p \in Procs :
          (launchCtx[p] = "after a run" /\ initPc'[p] # initPc[p])
             => pricing' = pricing]_vars

C5_Witness ==
  /\ \A p \in Procs : launchCtx[p] # "overlapping"
  /\ \E p \in Procs : launchCtx[p] = "after a run" /\ initPc[p] = "ready"
  /\ Len(pricing) = 1
  /\ pricing[1].discountPercentage = Hundred

PhoneMessage == "Phone number must be 10 digits."

\* C6 (as claimed): a phone of 5 or 11 digits is refused with a 400 and no
\* write, "1234567890" passes, and "123-456-7890" is sanitized to
\* "1234567890" and passes.
C6_PhoneExamples ==
  last.kind = "submitPayment" =>
     /\ last.body.phone \in {Str(s_phone5), Str(s_phone11)}
          => last.resp = Resp(400, PhoneMessage) /\ last.log = <<>>
     /\ last.body.phone = Str(s_phone10) => last.resp.message # PhoneMessage
     /\ last.body.phone = Str(s_phoneDash)
          => /\ sanitizeString(last.body.phone) = s_phone10
             /\ last.resp.message # PhoneMessage

\* C6 (amended): a phone of 5 or 11 digits is refused with a 400 and no
\* write, "1234567890" passes, "123-456-7890" keeps its hyphens through
\* sanitization and is refused, and "123 456 7890" is sanitized to
\* "1234567890" and passes.
C6_PhoneValidation ==
  last.kind = "submitPayment" =>
     /\ last.body.phone \in {Str(s_phone5), Str(s_phone11)}
          => last.resp = Resp(400, PhoneMessage) /\ last.log = <<>>
     /\ last.body.phone = Str(s_phone10) => last.resp.message # PhoneMessage
     /\ last.body.phone = Str(s_phoneDash)
          => /\ sanitizeString(last.body.phone) = s_phoneDash
             /\ last.resp = Resp(400, PhoneMessage) /\ last.log = <<>>
     /\ last.body.phone = Str(s_phoneSpace)
          => /\ sanitizeString(last.body.phone) = s_phone10
             /\ last.resp.message # PhoneMessage

C6_Witness ==
  /\ last.kind = "submitPayment"
  /\ last.body.phone = Str(s_phoneSpace)
  /\ last.resp.code = 200

InEnum(status) == IsStr(status) /\ toLowerCase(status.s) \in validStatuses

\* C7: a status update with a status of the enum in any letter case stores its
\* lower-case form, one for an id without a record ends with a 404, one with a
\* status outside the enum ends with a 400.
C7_UpdateStatus ==
  last.kind = "updateStatus" =>
     /\ (InEnum(last.body.status) /\ last.resp.code = 200)
          => \E i \in DOMAIN payments :
                /\ payments[i].id = last.body.id
                /\ payments[i].status \in validStatuses
     /\ (/\ InEnum(last.body.status)
         /\ \A i \in DOMAIN payments : payments[i].id # last.body.id
         /\ last.resp.code # 500)
          => last.resp.code = 404
     /\ ~InEnum(last.body.status) => last.resp.code = 400

\* C8: the stored status of every record is one of pending, success, failed.
C8_StatusEnum ==
  \A i \in DOMAIN payments : payments[i].status \in validStatuses

EarlyValidationMessages ==
  {"Missing required fields.", PhoneMessage, "Invalid email format.",
   "Invalid status. Must be pending, success, or failed.", "Status is required.",
   "basePrice and discountPercentage are required.",
   "basePrice must be a positive number.",
   "discountPercentage must be between 0 and 100.",
   "Amount and currency are required.", "Amount must be a positive integer."}

C10_NoRequestBeforeReady ==
  /\ last.kind # "none" => ~last.unready
  /\ \A s \in Slots : req[s].kind # "idle" => ~req[s].unready
  /\ \A p \in Procs : initPc[p] = "exited" => ~(last.kind # "none" /\ last.proc = p)

\* a listing answers in this step
Lists == \E s \in Slots : /\ req[s].kind = "listPayments"
                          /\ req'[s] = Idle
                          /\ last'.kind = "listPayments"
                          /\ last'.resp.code = 200

BadPricingInput(body) ==
  \/ IsNaN(parseFloat(body.basePrice))
  \/ NumLe(parseFloat(body.basePrice), Zero)
  \/ IsNaN(parseFloat(body.discountPercentage))
  \/ NumLt(parseFloat(body.discountPercentage), Zero)
  \/ NumGt(parseFloat(body.discountPercentage), Hundred)

\* a request of this kind is answered in the step that receives it
AnsweredAtOnce(kind) ==
  budget' < budget /\ req' = req /\ last'.kind = kind

\* the statement of a request of this kind in slot s is executed in this step
Executes(s, kind) ==
  req[s].kind = kind /\ req'[s] = Idle /\ initPc' = initPc

C15_PricingSingleton ==
  (\E p \in Procs : initPc[p] = "ready") => Len(pricing) = 1

Snapshot(r) == <<r.basePrice, r.discountPercentage>>

\* the submission in slot s has read the pricing row and goes on
HoldsSnapshot(r) == r.kind = "submitPayment" /\ r.pc \in {"fetch", "insert"}

\* C13: the snapshot of a stored record is the pair the pricing row held in
\* the step in which the submission read it, carried unchanged to the insert,
\* and the amount of every stored record, formatted to 2 decimals, is the
\* final price of the record's own snapshot.
C13_RecordMatchesSnapshot ==
  /\ [](\A i \in DOMAIN payments :
          toFixed(parseFloat(Str(payments[i].amount)), 2)
            = toFixed(DiscountedPrice(payments[i].basePrice,
                                      payments[i].discountPercentage), 2))
  /\ [][\A s \in Slots :
          /\ (~HoldsSnapshot(req[s]) /\ HoldsSnapshot(req'[s]))
               => Snapshot(req'[s]) = Snapshot(pricing[1])
          /\ (HoldsSnapshot(req[s]) /\ HoldsSnapshot(req'[s]))
               => Snapshot(req'[s]) = Snapshot(req[s])]_vars
  /\ [][Len(payments') > Len(payments) =>
          /\ Len(payments') = Len(payments) + 1
          /\ \E s \in Slots :
               /\ HoldsSnapshot(req[s]) /\ req'[s] = Idle
               /\ Snapshot(payments'[Len(payments')]) = Snapshot(req[s])]_vars

C13_Witness ==
  /\ Len(payments) = 1
  /\ Snapshot(payments[1]) = <<DefaultBasePrice, Zero>>
  /\ Snapshot(payments[1]) = Snapshot(pricing[1])
  /\ payments[1].amount = s_19900

\* the submission in slot s inserts in this step, after the pricing row has
\* moved away from the values the submission read
InsertsAfterUpdate(s) ==
  /\ HoldsSnapshot(req[s]) /\ req[s].pc = "insert" /\ req'[s] = Idle
  /\ last'.resp.code = 200
  /\ Snapshot(req[s]) # Snapshot(pricing[1])

\* C14: a submission that read the pricing row before a concurrent update
\* committed still inserts its record, and the record carries the amount and
\* the snapshot of before the update, not the values of the pricing row at
\* the moment of the insert.
C14_StaleSnapshotInserted ==
  [][\A s \in Slots :
       InsertsAfterUpdate(s) =>
          /\ Len(payments') = Len(payments) + 1
          /\ LET row == payments'[Len(payments')] IN
               /\ Snapshot(row) = Snapshot(req[s])
               /\ Snapshot(row) # Snapshot(pricing'[1])
               /\ Str(row.amount) = req[s].body.amount
               /\ toFixed(parseFloat(Str(row.amount)), 2)
                    = toFixed(DiscountedPrice(req[s].basePrice, req[s].discountPercentage), 2)]_vars

\* the record of the submission that finished last differs from the pricing
\* row: an update committed between the submission's read and its insert
C14_Witness ==
  /\ last.kind = "submitPayment" /\ last.resp.code = 200
  /\ Len(payments) = 1
  /\ Snapshot(payments[1]) = <<DefaultBasePrice, DefaultDiscount>>
  /\ payments[1].amount = s_2985
  /\ Snapshot(pricing[1]) = <<DefaultBasePrice, Hundred>>

\* the identifiers the submission that finished last sent to the gateway
\* lookup and compared with its answer
LookedUp ==
  {c[3] : c \in {x \in Calls(last.log) : x[1] = "gateway" /\ Len(x) = 3}}

\* C16: the record of a submission that passed the gateway reconciliation
\* stores the paymentId that was looked up and the orderId that was compared
\* with the gateway's answer.
C16_VerifiedPairRecorded ==
  (/\ last.kind = "submitPayment" /\ last.resp.code = 200
   /\ GatewayAnswers(last.log) # {})
    => \E i \in DOMAIN payments :
          /\ Str(payments[i].paymentId) \in LookedUp
          /\ Str(payments[i].orderId) = last.body.orderId

\* C17: no step of a pricing update changes a stored record: the table of
\* payments is the same after the step, every field of every record.
C17_PricingUpdateKeepsRecords ==
  [][(\/ AnsweredAtOnce("updatePricing")
      \/ \E s \in Slots : req[s] = Idle /\ req'[s].kind = "updatePricing"
      \/ \E s \in Slots : Executes(s, "updatePricing"))
       => payments' = payments]_vars

C17_Witness ==
  /\ last.kind = "updatePricing" /\ last.resp.code = 200
  /\ Len(payments) = 1
  /\ Snapshot(payments[1]) = <<DefaultBasePrice, DefaultDiscount>>
  /\ payments[1].amount = s_2985
  /\ Snapshot(pricing[1]) = <<DefaultBasePrice, Hundred>>

\* rows agree in every field but the status
SameButStatus(a, b) == [a EXCEPT !.status = b.status] = b

====
